---- MODULE Spec2Model ----
(***************************************************************************)
(* BLE Cycling Power Meter (power_meter/main): the connection handle and   *)
(* subscription flag kept by ble_power_service.c, the GAP event handler    *)
(* and advertising restart of gap.c, and the periodic notifier task of     *)
(* main.c.  The NimBLE host task (event callbacks) and the power update    *)
(* task (ticker) are separate FreeRTOS tasks that share the statics of     *)
(* ble_power_service.c without a lock: event handlers are atomic actions,  *)
(* the ticker advances one shared-memory access at a time.                 *)
(***************************************************************************)
EXTENDS Integers, Sequences, FiniteSets, TLC

(* ------------------------------ bounds -------------------------------- *)
\* connection handles the transport hands out: 1..MaxConnHandle
MaxConnHandle == 2
\* the ticker starts a tick only while fewer than MaxTicks ticks were accepted
MaxTicks == 3

(* ------------------------- program constants -------------------------- *)
BLE_HS_CONN_HANDLE_NONE == 65535
CPM_FLAG_CRANK_REV_DATA_PRESENT == 32
CRANK_EVENT_TIME_STEP == 256
POWER_BASE_WATTS == 200
POWER_AMPLITUDE_WATTS == 50
\* value handles in the order the characteristics stand in gatt_svr_svcs
POWER_MEASUREMENT_CHR == 1
POWER_FEATURE_CHR == 2
SENSOR_LOCATION_CHR == 3

U16 == 65536

ConnHandles == 1..MaxConnHandle
AttrHandles == {POWER_MEASUREMENT_CHR, POWER_FEATURE_CHR, SENSOR_LOCATION_CHR}
\* the sine source of power_update_task yields base +/- amplitude
PowerVals == {POWER_BASE_WATTS - POWER_AMPLITUDE_WATTS, 215,
              POWER_BASE_WATTS + POWER_AMPLITUDE_WATTS}
\* outcomes of start_advertising: both transport calls succeed, or
\* ble_gap_adv_set_fields fails, or ble_gap_adv_start fails
AdvOutcomes == {"ok", "set_fields_failed", "adv_start_failed"}
\* outcomes of app_main's initialisation chain
BootOutcomes == {"ok", "nvs_failed", "nimble_port_failed", "gap_init_failed",
                 "power_service_init_failed"}
\* outcomes of adv_init's address setup before start_advertising
AddrOutcomes == {"ok", "no_addr", "infer_failed", "copy_failed"}

VARIABLES
    boot,                        \* app_main / on_stack_sync progress
    power_measurement_val_handle,\* static, filled in at registration
    power_conn_handle,           \* static, ble_power_service.c
    power_notify_enabled,        \* static, ble_power_service.c
    cumulative_crank_revs,       \* static uint16_t
    last_crank_event_time,       \* static uint16_t
    advertising,                 \* the transport is advertising for us
    cb_registered,               \* gap_event_handler was handed to ble_gap_adv_start
    adv_rejected,                \* some start_advertising call has failed so far
    pc,                          \* position of power_update_task
    power_watts,                 \* argument of the running send_power_notification
    om,                          \* the mbuf of the running tick (<<>> = none)
    tick_failed,                 \* the last tick past the gate logged a delivery error
    gate_conn,                   \* the handle the running tick's guard read
    gate_seen,                   \* the tracker satisfied may_notify() at some
                                 \* instant since the running tick read the flag
    accepted,                    \* ticks that got past the guard so far
    init_revs,                   \* cumulative_crank_revs when counting began
    init_time,                   \* last_crank_event_time when counting began
    event,                       \* the input handled by the last step
    out                          \* the transport requests the last step issued

vars == <<boot, power_measurement_val_handle, power_conn_handle,
          power_notify_enabled, cumulative_crank_revs, last_crank_event_time,
          advertising, cb_registered, adv_rejected, pc, power_watts, om,
          tick_failed, gate_conn, gate_seen, accepted, init_revs, init_time,
          event, out>>

tickerVars == <<pc, power_watts, om, tick_failed, cumulative_crank_revs,
                last_crank_event_time, gate_conn, accepted, init_revs,
                init_time>>

(* ------------------- the statics the handlers work on ------------------ *)
\* The state the GAP callbacks read and write, as one record, so that a
\* handler is the composition of the calls it makes, in the code's order.
Globals ==
    [power_conn_handle |-> power_conn_handle,
     power_notify_enabled |-> power_notify_enabled,
     advertising |-> advertising,
     cb_registered |-> cb_registered,
     adv_rejected |-> adv_rejected,
     out |-> <<>>]

Commit(g) ==
    /\ power_conn_handle' = g.power_conn_handle
    /\ power_notify_enabled' = g.power_notify_enabled
    /\ advertising' = g.advertising
    /\ cb_registered' = g.cb_registered
    /\ adv_rejected' = g.adv_rejected
    /\ out' = g.out
    /\ gate_seen' =
           IF pc = "check_conn"
           THEN gate_seen \/ (g.power_notify_enabled
                              /\ g.power_conn_handle # BLE_HS_CONN_HANDLE_NONE)
           ELSE gate_seen

\* the tracker and the advertising status as a handler finds them on entry
Entry ==
    [conn |-> power_conn_handle, notify |-> power_notify_enabled,
     adv |-> advertising]

\* may_notify(): the gate of send_power_notification, on one state
MayNotify ==
    power_notify_enabled /\ power_conn_handle # BLE_HS_CONN_HANDLE_NONE

\* the peripheral state, read off the handle and the transport's advertising
PeripheralState ==
    IF power_conn_handle # BLE_HS_CONN_HANDLE_NONE THEN "Connected"
    ELSE IF advertising THEN "Advertising"
    ELSE "Idle"

(* ------------------------ ble_power_service.c -------------------------- *)
\* faulty variant: the handle is stored and the subscription flag is never reset
power_service_set_conn_handle_keeps_flag(g, conn_handle) ==
    [g EXCEPT !.power_conn_handle = conn_handle]

power_service_set_conn_handle(g, conn_handle) ==
    [g EXCEPT !.power_conn_handle = conn_handle,
              !.power_notify_enabled =
                  IF conn_handle = BLE_HS_CONN_HANDLE_NONE THEN FALSE ELSE @]

\* faulty variant: a matching event switches notifications on whatever it says
power_service_subscribe_cb_always_on(g, attr_handle, cur_notify) ==
    IF attr_handle = power_measurement_val_handle
    THEN [g EXCEPT !.power_notify_enabled = TRUE]
    ELSE g

\* faulty variant: a matching event flips the flag instead of assigning it
power_service_subscribe_cb_toggle(g, attr_handle, cur_notify) ==
    IF attr_handle = power_measurement_val_handle
    THEN [g EXCEPT !.power_notify_enabled = ~@]
    ELSE g

\* faulty variant: the attribute handle of the event is not compared
power_service_subscribe_cb_any_attr(g, attr_handle, cur_notify) ==
    [g EXCEPT !.power_notify_enabled = cur_notify]

power_service_subscribe_cb(g, attr_handle, cur_notify) ==
    IF attr_handle = power_measurement_val_handle
    THEN [g EXCEPT !.power_notify_enabled = cur_notify]
    ELSE g

(* ------------------------------- gap.c --------------------------------- *)
\* One StartAdvertising request: the record notes the tracker as it stood
\* when start_advertising was entered.
AdvRequest(g, rc) ==
    [req |-> "StartAdvertising", rc |-> rc,
     conn |-> g.power_conn_handle, notify |-> g.power_notify_enabled,
     adv |-> g.advertising]

\* faulty variant: a rejected request is issued a second time from inside the call
start_advertising_retry(g, rc) ==
    IF rc = "ok"
    THEN [g EXCEPT !.advertising = TRUE, !.cb_registered = TRUE,
                   !.out = Append(@, AdvRequest(g, rc))]
    ELSE [g EXCEPT !.adv_rejected = TRUE,
                   !.out = Append(Append(@, AdvRequest(g, rc)),
                                  AdvRequest(g, rc))]

start_advertising(g, rc) ==
    IF rc = "ok"
    THEN [g EXCEPT !.advertising = TRUE, !.cb_registered = TRUE,
                   !.out = Append(@, AdvRequest(g, rc))]
    ELSE [g EXCEPT !.adv_rejected = TRUE,
                   !.out = Append(@, AdvRequest(g, rc))]

\* The transport stops advertising when it reports a connection attempt
\* (either status) or the end of the advertising procedure.
AdvertisingEnded(g) == [g EXCEPT !.advertising = FALSE]

\* case BLE_GAP_EVENT_CONNECT; find_rc is what ble_gap_conn_find returns
gap_event_connect(g, conn_handle, status, find_rc, adv_rc) ==
    IF status = 0
    THEN IF find_rc # 0
         THEN g
         ELSE power_service_set_conn_handle(g, conn_handle)
    ELSE start_advertising(g, adv_rc)

\* faulty variant: advertising is restarted before the handle is cleared
gap_event_disconnect_adv_first(g, adv_rc) ==
    power_service_set_conn_handle(start_advertising(g, adv_rc),
                                  BLE_HS_CONN_HANDLE_NONE)

\* case BLE_GAP_EVENT_DISCONNECT
gap_event_disconnect(g, adv_rc) ==
    start_advertising(
        power_service_set_conn_handle(g, BLE_HS_CONN_HANDLE_NONE), adv_rc)

\* faulty variant: the end of advertising is logged and advertising is not restarted
gap_event_adv_complete_silent(g, adv_rc) == g

\* case BLE_GAP_EVENT_ADV_COMPLETE
gap_event_adv_complete(g, adv_rc) == start_advertising(g, adv_rc)

\* case BLE_GAP_EVENT_SUBSCRIBE
gap_event_subscribe(g, attr_handle, cur_notify) ==
    power_service_subscribe_cb(g, attr_handle, cur_notify)

\* cases BLE_GAP_EVENT_CONN_UPDATE, BLE_GAP_EVENT_NOTIFY_TX, BLE_GAP_EVENT_MTU
gap_event_log_only(g) == g

(* ----------------------------- encoding -------------------------------- *)
Lo(x) == x % 256
Hi(x) == (x \div 256) % 256
\* faulty variant: the field is laid out high byte first
Le16_BigEndian(x) == <<Hi(x % U16), Lo(x % U16)>>

\* a 16-bit field as it lies in memory (two's complement, little-endian)
Le16(x) == <<Lo(x % U16), Hi(x % U16)>>

\* faulty variant: the zeroed struct is filled in without the flags assignment
Measurement_NoFlags(watts, revs, time) ==
    [flags |-> 0,
     instantaneous_power |-> watts,
     cumulative_crank_revs |-> revs,
     last_crank_event_time |-> time]

\* the cycling_power_measurement_t built by send_power_notification
Measurement(watts, revs, time) ==
    [flags |-> CPM_FLAG_CRANK_REV_DATA_PRESENT,
     instantaneous_power |-> watts,
     cumulative_crank_revs |-> revs,
     last_crank_event_time |-> time]

\* ble_hs_mbuf_from_flat(&measurement, sizeof(measurement)) on the packed struct
Flat(m) ==
    Le16(m.flags) \o Le16(m.instantaneous_power)
        \o Le16(m.cumulative_crank_revs) \o Le16(m.last_crank_event_time)

(* ------------------------------ Init ----------------------------------- *)
Init ==
    /\ boot = "reset"
    /\ power_measurement_val_handle = 0
    /\ power_conn_handle = BLE_HS_CONN_HANDLE_NONE
    /\ power_notify_enabled = FALSE
    /\ cumulative_crank_revs = 0
    /\ last_crank_event_time = 0
    /\ advertising = FALSE
    /\ cb_registered = FALSE
    /\ adv_rejected = FALSE
    /\ pc = "delay"
    /\ power_watts = 0
    /\ om = <<>>
    /\ tick_failed = FALSE
    /\ gate_conn = BLE_HS_CONN_HANDLE_NONE
    /\ gate_seen = FALSE
    /\ accepted = 0
    /\ init_revs = 0
    /\ init_time = 0
    /\ event = [type |-> "none"]
    /\ out = <<>>

(* ------------------------------ main.c --------------------------------- *)
\* app_main: every failing initialisation returns before the tasks exist
AppMain ==
    /\ boot = "reset"
    /\ \E rc \in BootOutcomes :
        /\ boot' = IF rc = "ok" THEN "started" ELSE "failed"
        /\ power_measurement_val_handle' =
               IF rc = "ok" THEN POWER_MEASUREMENT_CHR ELSE 0
        /\ event' = [type |-> "APP_MAIN", rc |-> rc]
    /\ out' = <<>>
    /\ UNCHANGED <<power_conn_handle, power_notify_enabled, advertising,
                   cb_registered, adv_rejected, gate_seen, tickerVars>>

\* on_stack_sync -> adv_init: start_advertising runs only with an address
AdvInit ==
    /\ boot = "started"
    /\ \E addr_rc \in AddrOutcomes, adv_rc \in AdvOutcomes :
        /\ Commit(IF addr_rc = "ok"
                  THEN start_advertising(Globals, adv_rc)
                  ELSE Globals)
        /\ event' = [type |-> "STACK_SYNC", addr_rc |-> addr_rc]
    /\ boot' = "synced"
    /\ UNCHANGED <<power_measurement_val_handle, tickerVars>>

(* --------------------- gap_event_handler, per event -------------------- *)
OnConnect ==
    /\ cb_registered
    /\ \E h \in ConnHandles, status \in {0, 1} :
        \* the lookup runs on success only, start_advertising on failure only
        \E find_rc \in (IF status = 0 THEN {0, 1} ELSE {0}),
           adv_rc \in (IF status = 0 THEN {"ok"} ELSE AdvOutcomes) :
            /\ Commit(gap_event_connect(AdvertisingEnded(Globals), h, status,
                                        find_rc, adv_rc))
            /\ event' = [type |-> "CONNECT", conn_handle |-> h,
                         status |-> status, find_rc |-> find_rc,
                         prev |-> Entry]
    /\ UNCHANGED <<boot, power_measurement_val_handle, tickerVars>>

OnDisconnect ==
    /\ cb_registered
    /\ \E h \in ConnHandles, adv_rc \in AdvOutcomes :
        /\ Commit(gap_event_disconnect(Globals, adv_rc))
        /\ event' = [type |-> "DISCONNECT", conn_handle |-> h,
                     prev |-> Entry]
    /\ UNCHANGED <<boot, power_measurement_val_handle, tickerVars>>

OnAdvComplete ==
    /\ cb_registered
    /\ \E adv_rc \in AdvOutcomes :
        /\ Commit(gap_event_adv_complete(AdvertisingEnded(Globals), adv_rc))
        /\ event' = [type |-> "ADV_COMPLETE", prev |-> Entry]
    /\ UNCHANGED <<boot, power_measurement_val_handle, tickerVars>>

OnSubscribe ==
    /\ cb_registered
    /\ \E attr \in AttrHandles, cur \in BOOLEAN :
        /\ Commit(gap_event_subscribe(Globals, attr, cur))
        /\ event' = [type |-> "SUBSCRIBE", attr_handle |-> attr,
                     cur_notify |-> cur, prev |-> Entry,
                     repeated |-> /\ event.type = "SUBSCRIBE"
                                  /\ event.attr_handle = attr
                                  /\ event.cur_notify = cur]
    /\ UNCHANGED <<boot, power_measurement_val_handle, tickerVars>>

OnLogOnly ==
    /\ cb_registered
    /\ \E t \in {"CONN_UPDATE", "NOTIFY_TX", "MTU"} :
        /\ Commit(gap_event_log_only(Globals))
        /\ event' = [type |-> t, prev |-> Entry]
    /\ UNCHANGED <<boot, power_measurement_val_handle, tickerVars>>

(* ------------- power_update_task / send_power_notification ------------- *)
trackerVars == <<boot, power_measurement_val_handle, power_conn_handle,
                 power_notify_enabled, advertising, cb_registered,
                 adv_rejected, init_revs, init_time>>

\* faulty variant: the revolution counter saturates instead of wrapping
NextRevs_Saturating(revs) == IF revs + 1 >= U16 THEN revs ELSE revs + 1

\* the counters after one accepted tick (uint16_t arithmetic)
NextRevs(revs) == (revs + 1) % U16
NextEventTime(time) == (time + CRANK_EVENT_TIME_STEP) % U16

TickReturn ==
    /\ pc' = "delay"
    /\ power_watts' = 0
    /\ om' = <<>>
    /\ gate_conn' = BLE_HS_CONN_HANDLE_NONE
    /\ gate_seen' = FALSE

\* loop top: the sine value is computed, send_power_notification is entered
\* and the first operand of its guard, !power_notify_enabled, is read
TickGateNotify ==
    /\ boot \in {"started", "synced"}
    /\ pc = "delay"
    /\ accepted < MaxTicks
    /\ \E p \in PowerVals :
        IF ~power_notify_enabled
        THEN /\ TickReturn
             /\ event' = [type |-> "TICK", step |-> "gate", result |-> "gated"]
        ELSE /\ pc' = "check_conn"
             /\ power_watts' = p
             /\ om' = <<>>
             /\ gate_seen' = MayNotify
             /\ UNCHANGED gate_conn
             /\ event' = [type |-> "TICK", step |-> "gate", result |-> "pass"]
    /\ out' = <<>>
    /\ UNCHANGED <<trackerVars, tick_failed, cumulative_crank_revs,
                   last_crank_event_time, accepted>>

\* faulty variant: the handle is not compared with BLE_HS_CONN_HANDLE_NONE
TickGateConn_Unchecked ==
    /\ pc = "check_conn"
    /\ pc' = "update"
    /\ gate_conn' = power_conn_handle
    /\ UNCHANGED <<power_watts, om, gate_seen>>
    /\ event' = [type |-> "TICK", step |-> "conn", result |-> "pass"]
    /\ out' = <<>>
    /\ UNCHANGED <<trackerVars, tick_failed, cumulative_crank_revs,
                   last_crank_event_time, accepted>>

\* second operand of the guard: power_conn_handle == BLE_HS_CONN_HANDLE_NONE
TickGateConn ==
    /\ pc = "check_conn"
    /\ IF power_conn_handle = BLE_HS_CONN_HANDLE_NONE
       THEN /\ TickReturn
            /\ event' = [type |-> "TICK", step |-> "conn", result |-> "gated"]
       ELSE /\ pc' = "update"
            /\ gate_conn' = power_conn_handle
            /\ UNCHANGED <<power_watts, om, gate_seen>>
            /\ event' = [type |-> "TICK", step |-> "conn", result |-> "pass"]
    /\ out' = <<>>
    /\ UNCHANGED <<trackerVars, tick_failed, cumulative_crank_revs,
                   last_crank_event_time, accepted>>

\* the counters advance, the measurement is built and copied into an mbuf
TickBuild ==
    /\ pc = "update"
    /\ cumulative_crank_revs' = NextRevs(cumulative_crank_revs)
    /\ last_crank_event_time' = NextEventTime(last_crank_event_time)
    /\ accepted' = accepted + 1
    /\ \E alloc_ok \in BOOLEAN :
        IF alloc_ok
        THEN /\ pc' = "notify"
             /\ om' = Flat(Measurement(power_watts, cumulative_crank_revs',
                                       last_crank_event_time'))
             /\ UNCHANGED <<power_watts, tick_failed, gate_conn, gate_seen>>
             /\ event' = [type |-> "TICK", step |-> "build", result |-> "pass"]
        ELSE /\ TickReturn
             /\ tick_failed' = TRUE
             /\ event' = [type |-> "TICK", step |-> "build",
                          result |-> "alloc_failed"]
    /\ out' = <<>>
    /\ UNCHANGED trackerVars

\* ble_gatts_notify_custom(power_conn_handle, power_measurement_val_handle, om)
NotifyRequest(rc) ==
    [req |-> "SendNotification", conn |-> power_conn_handle,
     attr |-> power_measurement_val_handle, payload |-> om, rc |-> rc]

\* faulty variant: a rejected send ends the task instead of returning to the loop
TickSend_AbortOnFailure ==
    /\ pc = "notify"
    /\ \E rc \in {0, 1} :
        /\ out' = <<NotifyRequest(rc)>>
        /\ tick_failed' = (rc # 0)
        /\ event' = [type |-> "TICK", step |-> "send",
                     result |-> IF rc = 0 THEN "sent" ELSE "send_failed",
                     after_failure |-> tick_failed,
                     checked_conn |-> gate_conn]
        /\ pc' = IF rc = 0 THEN "delay" ELSE "deleted"
    /\ power_watts' = 0
    /\ om' = <<>>
    /\ gate_conn' = BLE_HS_CONN_HANDLE_NONE
    /\ gate_seen' = FALSE
    /\ UNCHANGED <<trackerVars, cumulative_crank_revs, last_crank_event_time,
                   accepted>>

TickSend ==
    /\ pc = "notify"
    /\ \E rc \in {0, 1} :
        /\ out' = <<NotifyRequest(rc)>>
        /\ tick_failed' = (rc # 0)
        /\ event' = [type |-> "TICK", step |-> "send",
                     result |-> IF rc = 0 THEN "sent" ELSE "send_failed",
                     after_failure |-> tick_failed,
                     checked_conn |-> gate_conn]
    /\ TickReturn
    /\ UNCHANGED <<trackerVars, cumulative_crank_revs, last_crank_event_time,
                   accepted>>

(* ------------------------------- Next ---------------------------------- *)
Next ==
    \/ AppMain
    \/ AdvInit
    \/ OnConnect
    \/ OnDisconnect
    \/ OnAdvComplete
    \/ OnSubscribe
    \/ OnLogOnly
    \/ TickGateNotify
    \/ TickGateConn
    \/ TickBuild
    \/ TickSend

Spec == Init /\ [][Next]_vars

(* ------------- the encoder on arbitrary arguments and counters ---------- *)
\* send_power_notification takes any int16_t, and the uint16_t counters
\* take every value in a long run: a call that has just passed its guard,
\* with the argument and the counters drawn from the edges of their ranges.
EncPowers == {-32768, -1, 0, 1, 215, 32767}
EncRevs == {0, 1, 255, 65534, 65535}
EncTimes == {0, 256, 65279, 65280, 65535}

InitEnc ==
    /\ boot = "synced"
    /\ power_measurement_val_handle = POWER_MEASUREMENT_CHR
    /\ power_conn_handle \in ConnHandles
    /\ power_notify_enabled = TRUE
    /\ cumulative_crank_revs \in EncRevs
    /\ last_crank_event_time \in EncTimes
    /\ advertising = FALSE
    /\ cb_registered = TRUE
    /\ adv_rejected = FALSE
    /\ pc = "update"
    /\ power_watts \in EncPowers
    /\ om = <<>>
    /\ tick_failed = FALSE
    /\ gate_conn = power_conn_handle
    /\ gate_seen = TRUE
    /\ accepted = 0
    /\ init_revs = cumulative_crank_revs
    /\ init_time = last_crank_event_time
    /\ event = [type |-> "TICK", step |-> "conn", result |-> "pass"]
    /\ out = <<>>

NextEnc ==
    \/ OnSubscribe
    \/ TickGateNotify
    \/ TickGateConn
    \/ TickBuild
    \/ TickSend

SpecEnc == InitEnc /\ [][NextEnc]_vars

TypeOK ==
    /\ boot \in {"reset", "failed", "started", "synced"}
    /\ power_conn_handle \in ConnHandles \cup {BLE_HS_CONN_HANDLE_NONE}
    /\ power_notify_enabled \in BOOLEAN
    /\ cumulative_crank_revs \in 0..(U16 - 1)
    /\ last_crank_event_time \in 0..(U16 - 1)
    /\ pc \in {"delay", "check_conn", "update", "notify"}
    /\ Len(out) <= 1

(* =============================== claims ================================ *)
IsAdvRequest(r) == r.req = "StartAdvertising"
IsGapEvent(e) ==
    e.type \in {"CONNECT", "DISCONNECT", "ADV_COMPLETE", "SUBSCRIBE",
                "CONN_UPDATE", "NOTIFY_TX", "MTU"}
\* exactly one StartAdvertising request, issued with the tracker as it is now
OneAdvRequestIssued ==
    /\ Len(out) = 1
    /\ IsAdvRequest(out[1])
    /\ out[1].conn = power_conn_handle
    /\ out[1].notify = power_notify_enabled

\* C1: the recorded identity is a single value (one handle or the sentinel),
\* and in the state right after a Disconnected event is handled the identity
\* is the sentinel and the subscription flag is false.
C1_DisconnectClearsTracker ==
    /\ power_conn_handle \in ConnHandles \cup {BLE_HS_CONN_HANDLE_NONE}
    /\ event.type = "DISCONNECT" =>
           /\ power_conn_handle = BLE_HS_CONN_HANDLE_NONE
           /\ ~power_notify_enabled

C1_Witness ==
    /\ event.type = "DISCONNECT"
    /\ event.prev.conn # BLE_HS_CONN_HANDLE_NONE
    /\ event.prev.notify

\* C2: a tick whose gate reads false (the subscription flag is false when it
\* is read, or the handle is the sentinel when it is read) returns at once:
\* the counters are unchanged, no packet is built, no request is issued; and
\* no gate step, passing or not, touches the counters or the transport.
C2_GatedTickIsNoOp ==
    [][(event'.type = "TICK" /\ pc \in {"delay", "check_conn"}) =>
          /\ cumulative_crank_revs' = cumulative_crank_revs
          /\ last_crank_event_time' = last_crank_event_time
          /\ out' = <<>>
          /\ om' = <<>>
          /\ ((pc = "delay" /\ ~power_notify_enabled)
              \/ (pc = "check_conn"
                  /\ power_conn_handle = BLE_HS_CONN_HANDLE_NONE))
             => (pc' = "delay" /\ event'.result = "gated")]_vars

C2_Witness ==
    /\ event.type = "TICK"
    /\ event.result = "gated"
    /\ event.step = "conn"
    /\ power_conn_handle = BLE_HS_CONN_HANDLE_NONE
    /\ cumulative_crank_revs > 0

\* C3: a successful ConnectEstablished for a new identity, handled while
\* another identity is recorded (the descriptor lookup succeeding), leaves
\* the new identity recorded and the subscription flag false, hence
\* may_notify() false.
C3_ReconnectClearsSubscription ==
    (/\ event.type = "CONNECT"
     /\ event.status = 0
     /\ event.find_rc = 0
     /\ event.prev.conn # BLE_HS_CONN_HANDLE_NONE
     /\ event.prev.conn # event.conn_handle)
    => (/\ power_conn_handle = event.conn_handle
        /\ ~power_notify_enabled
        /\ ~MayNotify)

\* C4: in every reachable state, no recorded identity implies that the
\* subscription flag is false.
C4_NoIdentityNoSubscription ==
    power_conn_handle = BLE_HS_CONN_HANDLE_NONE => ~power_notify_enabled

\* C5: a ConnectEstablished with status success delivered while Advertising
\* records the event's identity and the state becomes Connected, whatever
\* ble_gap_conn_find returned.
C5_ConnectRecordsIdentity ==
    (/\ event.type = "CONNECT"
     /\ event.status = 0
     /\ event.prev.conn = BLE_HS_CONN_HANDLE_NONE
     /\ event.prev.adv)
    => (/\ power_conn_handle = event.conn_handle
        /\ PeripheralState = "Connected")

\* C6 as stated: after a Disconnected event the tracker is clear, exactly
\* one StartAdvertising request was issued after the clearing, the state is
\* Advertising and may_notify() is false.
C6_DisconnectRearms ==
    event.type = "DISCONNECT" =>
        /\ power_conn_handle = BLE_HS_CONN_HANDLE_NONE
        /\ ~power_notify_enabled
        /\ OneAdvRequestIssued
        /\ PeripheralState = "Advertising"
        /\ ~MayNotify

\* C6 amended: after a Disconnected event the tracker is clear, exactly one
\* StartAdvertising request was issued, with the tracker already cleared,
\* and may_notify() is false; the state is Advertising when the transport
\* accepted the request, and when it rejected it the advertising status is
\* what it was before the event.
C6_DisconnectRearmsIfAccepted ==
    event.type = "DISCONNECT" =>
        /\ power_conn_handle = BLE_HS_CONN_HANDLE_NONE
        /\ ~power_notify_enabled
        /\ OneAdvRequestIssued
        /\ ~MayNotify
        /\ out[1].rc = "ok" => PeripheralState = "Advertising"
        /\ out[1].rc # "ok" => advertising = event.prev.adv

C6_Witness ==
    /\ event.type = "DISCONNECT"
    /\ event.prev.conn # BLE_HS_CONN_HANDLE_NONE
    /\ event.prev.notify
    /\ Len(out) = 1
    /\ out[1].rc = "ok"
    /\ PeripheralState = "Advertising"

\* a failed ConnectEstablished or an AdvertisingComplete, delivered while
\* Advertising with no identity recorded
RearmEventWhileAdvertising ==
    /\ \/ (event.type = "CONNECT" /\ event.status # 0)
       \/ event.type = "ADV_COMPLETE"
    /\ event.prev.conn = BLE_HS_CONN_HANDLE_NONE
    /\ event.prev.adv

\* C7 as stated: such an event causes exactly one StartAdvertising request,
\* the state stays Advertising, the identity stays the sentinel and the
\* subscription flag is unchanged.
C7_RearmKeepsAdvertising ==
    RearmEventWhileAdvertising =>
        /\ OneAdvRequestIssued
        /\ PeripheralState = "Advertising"
        /\ power_conn_handle = BLE_HS_CONN_HANDLE_NONE
        /\ power_notify_enabled = event.prev.notify

\* C7 amended: such an event causes exactly one StartAdvertising request,
\* the identity stays the sentinel and the subscription flag is unchanged;
\* the state stays Advertising when the transport accepts the request and
\* is Idle (nothing advertising, nothing connected) when it rejects it.
C7_RearmKeepsAdvertisingIfAccepted ==
    RearmEventWhileAdvertising =>
        /\ OneAdvRequestIssued
        /\ power_conn_handle = BLE_HS_CONN_HANDLE_NONE
        /\ power_notify_enabled = event.prev.notify
        /\ out[1].rc = "ok" => PeripheralState = "Advertising"
        /\ out[1].rc # "ok" => PeripheralState = "Idle"

C7_Witness ==
    /\ RearmEventWhileAdvertising
    /\ event.type = "ADV_COMPLETE"
    /\ Len(out) = 1
    /\ out[1].rc = "ok"
    /\ PeripheralState = "Advertising"

\* C8: once start_advertising has run, and as long as no StartAdvertising
\* request has been rejected, the peripheral is advertising or has an
\* identity recorded.
C8_AdvertisingOrConnected ==
    (cb_registered /\ ~adv_rejected) =>
        (advertising \/ power_conn_handle # BLE_HS_CONN_HANDLE_NONE)

\* C9: a step in which a StartAdvertising request is rejected reports the
\* failure, issues that one request only, leaves the identity, the
\* subscription flag and the advertising status as they were when the
\* request was issued, and leaves the crank counters unchanged; and only
\* the handling of a transport event (or the initial stack sync) issues a
\* StartAdvertising request: the ticker never does.
C9_RejectedAdvertisingNoRetry ==
    [][/\ (Len(out') > 0 /\ IsAdvRequest(out'[1])) =>
              (IsGapEvent(event') \/ event'.type = "STACK_SYNC")
       /\ (Len(out') > 0 /\ IsAdvRequest(out'[1]) /\ out'[1].rc # "ok") =>
              /\ Len(out') = 1
              /\ adv_rejected'
              /\ out'[1].conn = power_conn_handle'
              /\ out'[1].notify = power_notify_enabled'
              /\ out'[1].adv = advertising'
              /\ cumulative_crank_revs' = cumulative_crank_revs
              /\ last_crank_event_time' = last_crank_event_time
              /\ pc' = pc]_vars

C9_Witness ==
    /\ event.type = "ADV_COMPLETE"
    /\ Len(out) = 1
    /\ out[1].rc = "adv_start_failed"
    /\ adv_rejected
    /\ ~advertising

\* C10: a tick that ends in a delivery failure (no mbuf, or the send is
\* rejected) leaves the identity, the subscription flag and the advertising
\* status unchanged and returns to the loop; and a tick that runs after
\* such a failure passes an open gate, advances the counters by one step
\* and hands the transport the packet built from them, as any tick does.
C10_DeliveryFailureSwallowed ==
    [][/\ (event'.type = "TICK"
           /\ event'.result \in {"alloc_failed", "send_failed"}) =>
              /\ power_conn_handle' = power_conn_handle
              /\ power_notify_enabled' = power_notify_enabled
              /\ advertising' = advertising
              /\ tick_failed'
              /\ pc' = "delay"
       /\ (event'.type = "TICK" /\ tick_failed) =>
              /\ (pc = "delay" /\ power_notify_enabled) => pc' = "check_conn"
              /\ (pc = "check_conn"
                  /\ power_conn_handle # BLE_HS_CONN_HANDLE_NONE)
                 => pc' = "update"
              /\ pc = "update" =>
                     /\ cumulative_crank_revs' =
                            NextRevs(cumulative_crank_revs)
                     /\ last_crank_event_time' =
                            NextEventTime(last_crank_event_time)
              /\ pc = "notify" =>
                     /\ Len(out') = 1
                     /\ out'[1].req = "SendNotification"
                     /\ out'[1].payload =
                            Flat(Measurement(power_watts,
                                             cumulative_crank_revs,
                                             last_crank_event_time))]_vars

C10_Witness ==
    /\ event.type = "TICK"
    /\ event.step = "send"
    /\ event.result = "sent"
    /\ event.after_failure

\* C11: the crank counters advance only on a tick that goes on to hand its
\* packet to the transport: a step that changes either counter leaves the
\* tick at the send, holding the packet with the advanced values.
C11_AdvanceOnlyWithSend ==
    [][(cumulative_crank_revs' # cumulative_crank_revs
        \/ last_crank_event_time' # last_crank_event_time)
       => (/\ pc' = "notify"
           /\ om' = Flat(Measurement(power_watts', cumulative_crank_revs',
                                     last_crank_event_time')))]_vars

\* C12: after N ticks that passed the guard, cumulative_crank_revs is
\* (initial + N) mod 65536 and last_crank_event_time is
\* (initial + N * 256) mod 65536, across wraparound of either counter.
C12_CountersAfterNTicks ==
    /\ cumulative_crank_revs = (init_revs + accepted) % 65536
    /\ last_crank_event_time =
           (init_time + accepted * CRANK_EVENT_TIME_STEP) % 65536

C12_Witness ==
    /\ accepted >= 2
    /\ cumulative_crank_revs < init_revs
    /\ last_crank_event_time < init_time
    /\ event.type = "TICK"
    /\ event.result = "sent"

\* the 16-bit field at byte offset off of a payload, little-endian
FieldU16(bytes, off) == bytes[off + 1] + 256 * bytes[off + 2]
FieldI16(bytes, off) ==
    IF FieldU16(bytes, off) >= 32768
    THEN FieldU16(bytes, off) - 65536
    ELSE FieldU16(bytes, off)

\* C13: the packet built on an accepted tick has flags exactly 0x0020, the
\* tick's power value, and the counters as they are after the advance:
\* previous revs + 1 and previous event time + 256, both mod 65536.
C13_PacketCarriesAdvancedCounters ==
    [][(pc = "update" /\ pc' = "notify") =>
          /\ FieldU16(om', 0) = 32
          /\ FieldI16(om', 2) = power_watts
          /\ FieldU16(om', 4) = (cumulative_crank_revs + 1) % 65536
          /\ FieldU16(om', 6) = (last_crank_event_time + 256) % 65536
          /\ FieldU16(om', 4) = cumulative_crank_revs'
          /\ FieldU16(om', 6) = last_crank_event_time']_vars

C13_Witness ==
    /\ pc = "notify"
    /\ power_watts = 215
    /\ cumulative_crank_revs = 0
    /\ init_revs = 65535
    /\ FieldU16(om, 0) = 32
    /\ FieldI16(om, 2) = 215

\* C14: a SubscriptionChanged event for the power-measurement
\* characteristic sets the subscription flag to the event's value and
\* leaves the identity and the crank counters unchanged; with an identity
\* recorded and the value true may_notify() is true afterwards, and with
\* the value false may_notify() is false afterwards.
C14_SubscribeSetsFlag ==
    [][(event'.type = "SUBSCRIBE"
        /\ event'.attr_handle = POWER_MEASUREMENT_CHR) =>
          /\ power_notify_enabled' = event'.cur_notify
          /\ power_conn_handle' = power_conn_handle
          /\ cumulative_crank_revs' = cumulative_crank_revs
          /\ last_crank_event_time' = last_crank_event_time
          /\ (event'.cur_notify
              /\ power_conn_handle # BLE_HS_CONN_HANDLE_NONE) => MayNotify'
          /\ ~event'.cur_notify => ~MayNotify']_vars

C14_Witness ==
    /\ event.type = "SUBSCRIBE"
    /\ event.attr_handle = POWER_MEASUREMENT_CHR
    /\ event.cur_notify
    /\ ~event.prev.notify
    /\ event.prev.conn # BLE_HS_CONN_HANDLE_NONE
    /\ MayNotify

\* C15: when a SubscriptionChanged event is delivered right after the same
\* event (same characteristic handle, same value), the second delivery
\* leaves the identity, the subscription flag, the counters and the
\* advertising status as the first left them, and neither delivery issues
\* a request.
C15_SubscribeIdempotent ==
    [][(/\ event.type = "SUBSCRIBE"
        /\ event'.type = "SUBSCRIBE"
        /\ event'.repeated) =>
          /\ power_conn_handle' = power_conn_handle
          /\ power_notify_enabled' = power_notify_enabled
          /\ cumulative_crank_revs' = cumulative_crank_revs
          /\ last_crank_event_time' = last_crank_event_time
          /\ advertising' = advertising
          /\ out = <<>>
          /\ out' = <<>>]_vars

C15_Witness ==
    /\ event.type = "SUBSCRIBE"
    /\ event.repeated
    /\ event.attr_handle = POWER_MEASUREMENT_CHR
    /\ event.cur_notify
    /\ power_notify_enabled

\* an event the tracker has no use for
IrrelevantEvent(e) ==
    \/ e.type \in {"CONN_UPDATE", "NOTIFY_TX", "MTU"}
    \/ (e.type = "SUBSCRIBE" /\ e.attr_handle # POWER_MEASUREMENT_CHR)

\* C19: a SubscriptionChanged event for another characteristic, an MTU
\* update, a connection-parameter update and a notify-transmit completion
\* leave the identity, the subscription flag, the crank counters and the
\* advertising status unchanged and issue no request.
C19_IrrelevantEventsIgnored ==
    [][IrrelevantEvent(event') =>
          /\ power_conn_handle' = power_conn_handle
          /\ power_notify_enabled' = power_notify_enabled
          /\ cumulative_crank_revs' = cumulative_crank_revs
          /\ last_crank_event_time' = last_crank_event_time
          /\ advertising' = advertising
          /\ out' = <<>>]_vars

C19_Witness ==
    /\ event.type = "SUBSCRIBE"
    /\ event.attr_handle = POWER_FEATURE_CHR
    /\ event.cur_notify
    /\ ~power_notify_enabled
    /\ power_conn_handle # BLE_HS_CONN_HANDLE_NONE

\* C16: the payload handed to the transport is exactly 8 bytes, and reading
\* it back as four consecutive little-endian 16-bit fields (flags, signed
\* power, revs, event time) recovers the power value and the two counters
\* it was built from.
C16_PayloadRoundTrip ==
    pc = "notify" =>
        /\ Len(om) = 8
        /\ \A i \in 1..Len(om) : om[i] \in 0..255
        /\ <<FieldI16(om, 2), FieldU16(om, 4), FieldU16(om, 6)>>
               = <<power_watts, cumulative_crank_revs, last_crank_event_time>>

C16_Witness ==
    /\ pc = "notify"
    /\ power_watts = -1
    /\ cumulative_crank_revs = 65535
    /\ last_crank_event_time = 0
    /\ om = <<32, 0, 255, 255, 255, 255, 0, 0>>

\* C17: a tick that got past its guard evaluated the guard on a tracker
\* state that existed: at some instant between its read of the
\* subscription flag and its read of the handle, the flag was true and an
\* identity was recorded.
C17_GateSeesOneTrackerState ==
    pc \in {"update", "notify"} => gate_seen

\* C18: every SendNotification request names the identity that the tick's
\* guard read, and never the sentinel.
C18_SendNamesCheckedIdentity ==
    (event.type = "TICK" /\ event.step = "send") =>
        /\ Len(out) = 1
        /\ out[1].req = "SendNotification"
        /\ out[1].conn = event.checked_conn
        /\ out[1].conn # BLE_HS_CONN_HANDLE_NONE

\* C20: a StartAdvertising request is never issued while an identity is
\* recorded, and advertising is never active together with a recorded
\* identity.
C20_NoAdvertisingWhileConnected ==
    /\ \A i \in 1..Len(out) :
           IsAdvRequest(out[i]) => out[i].conn = BLE_HS_CONN_HANDLE_NONE
    /\ ~(advertising /\ power_conn_handle # BLE_HS_CONN_HANDLE_NONE)

\* the last step was a transport setup failure: app_main gave up in its
\* initialisation chain, or start_advertising gave up at
\* ble_gap_adv_set_fields
SetupFailed ==
    \/ (event.type = "APP_MAIN" /\ event.rc # "ok")
    \/ \E i \in 1..Len(out) :
           IsAdvRequest(out[i]) /\ out[i].rc = "set_fields_failed"

\* C21: a transport setup failure (registration or device-name setup in
\* app_main, or advertising-data assembly in start_advertising) is fatal:
\* the step that follows it is not a tick of the ticker, issues no
\* StartAdvertising request that succeeds and issues no SendNotification
\* request.
C21_SetupFailureIsFatal ==
    [][SetupFailed =>
          /\ event'.type # "TICK"
          /\ \A i \in 1..Len(out') :
                 /\ out'[i].req # "SendNotification"
                 /\ ~(IsAdvRequest(out'[i]) /\ out'[i].rc = "ok")]_vars

====
